---- MODULE Spec2Model ----
(***************************************************************************)
(* Model of the whiteboard capture backend (src/main.py): the Metadata     *)
(* Store (image_metadata, an insertion-ordered dict), the Session Registry *)
(* (user_deleted_images, user_session_start_times), the Sync Reconciler    *)
(* (sync_cloudinary_images / fetch_cloudinary_folder_images) and the HTTP  *)
(* handlers.  Every handler is one atomic action (section 5 of the spec:   *)
(* each request runs synchronously to completion).                         *)
(*                                                                         *)
(* A filename "whiteboard_<ts>.<ext>" is the record [ts |-> ts, ext |-> e].*)
(* A public id "<dir>/<stem><n>" is the record [dir, stem, n].             *)
(* A secure URL ".../<public_id>.<format>" is the record [id, fmt].        *)
(***************************************************************************)
EXTENDS Integers, Sequences, FiniteSets, TLC

VARIABLES
    now,                       \* int(time.time()): the wall clock, in seconds
    image_metadata,            \* main.py:68   ordered dict filename -> record
    metadata_file,             \* main.py:45   contents of image_metadata.json
    user_deleted_images,       \* main.py:41   session id -> set of filenames
    user_session_start_times,  \* main.py:42   session id -> int
    cloud,                     \* the remote host: folder -> listed resources
    resp,                      \* the response to the last request
    probe,                     \* the (session, filename) pair the history is kept for
    hist                       \* history of the probe pair (see Hist0)

vars == <<now, image_metadata, metadata_file, user_deleted_images,
          user_session_start_times, cloud, resp, probe, hist>>

----------------------------------------------------------------------------
(* Bounds *)

MaxTime == 1        \* the clock runs over 0..MaxTime
MaxResults == 1     \* stands for max_results=500: resources per listing page
MaxListing == 3     \* resources a folder listing may hold
MaxSessions == 2    \* session ids in use

(* Program constants *)

CLOUDINARY_FOLDER == "whiteboard_captures"
ALTERNATIVE_FOLDERS == <<"whiteboard_images">>

Folders == {CLOUDINARY_FOLDER} \cup {ALTERNATIVE_FOLDERS[i] : i \in 1..Len(ALTERNATIVE_FOLDERS)}

Times == 0..MaxTime
Exts == {"png", "jpg"}
SessionIds == 1..MaxSessions
NoCookie == 0
NoDate == -1                \* created_at missing or not in '%Y-%m-%dT%H:%M:%SZ'

Filenames == [ts : Times, ext : Exts]

----------------------------------------------------------------------------
(* The Metadata Store: an insertion-ordered dict, kept as a sequence of    *)
(* records with pairwise distinct filenames.                               *)

Names(meta) == {meta[i].filename : i \in 1..Len(meta)}

IndexOf(meta, filename) ==
    CHOOSE i \in 1..Len(meta) : meta[i].filename = filename

Lookup(meta, filename) == meta[IndexOf(meta, filename)]

\* image_metadata[filename] = {...}: an existing key keeps its position and
\* gets the new value, a new key goes to the end.
MetaSet(meta, rec) ==
    IF rec.filename \in Names(meta)
    THEN [meta EXCEPT ![IndexOf(meta, rec.filename)] = rec]
    ELSE Append(meta, rec)

\* del image_metadata[filename]
MetaDel(meta, filename) ==
    SelectSeq(meta, LAMBDA r : r.filename # filename)

\* the loop "for key, data in image_metadata.items(): if data.get('cloudinary_id') == public_id"
ExistingEntry(meta, public_id) ==
    \E i \in 1..Len(meta) : meta[i].cloudinary_id = public_id

----------------------------------------------------------------------------
(* The Sync Reconciler *)

\* the timestamp of a resource that is not in the metadata yet
ExtractTimestamp(resource, t) ==
    IF resource.public_id.stem = "whiteboard_"
    THEN resource.public_id.n
    ELSE IF resource.created_at # NoDate THEN resource.created_at ELSE t

\* the record built for a resource, keyed by the standardized filename
NewRecord(resource, t) ==
    LET timestamp == ExtractTimestamp(resource, t)
    IN  [filename      |-> [ts |-> timestamp, ext |-> resource.format],
         timestamp     |-> timestamp,
         cloudinary_id |-> resource.public_id,
         url           |-> resource.secure_url]

\* one iteration of "for resource in results.get('resources', [])"
ProcessResource(meta, resource, t) ==
    IF ExistingEntry(meta, resource.public_id)
    THEN meta
    ELSE MetaSet(meta, NewRecord(resource, t))

\* the loop over the first k resources of a page
RECURSIVE ProcessResources(_, _, _, _)
ProcessResources(meta, page, k, t) ==
    IF k = 0 THEN meta
    ELSE ProcessResource(ProcessResources(meta, page, k - 1, t), page[k], t)

Min(a, b) == IF a < b THEN a ELSE b

\* cloudinary.api.resources(prefix=folder/, max_results=..): the first page
FirstPage(listing) == SubSeq(listing, 1, Min(MaxResults, Len(listing)))

\* 'next_cursor' in results
HasNextCursor(listing) == Len(listing) > MaxResults

\* cloudinary.api.resources(..., next_cursor=results['next_cursor'])
NextPage(listing) == SubSeq(listing, MaxResults + 1, Min(2 * MaxResults, Len(listing)))

(* A fault of one folder's reconciliation:                                 *)
(*   [kind |-> "none"]                  nothing raises                     *)
(*   [kind |-> "list"]                  the first listing call raises      *)
(*   [kind |-> "next"]                  the next_cursor listing call raises*)
(*   [kind |-> "item", page, idx]       processing resource idx of the     *)
(*                                      page raises (e.g. a KeyError)      *)
NoFault == [kind |-> "none", page |-> 0, idx |-> 0]

FaultChoices ==
    {NoFault, [kind |-> "list", page |-> 0, idx |-> 0], [kind |-> "next", page |-> 0, idx |-> 0]}
    \cup [kind : {"item"}, page : {1, 2}, idx : 1..MaxResults]

\* how many resources of a page are processed before the fault stops the loop
Processed(page, pageNo, fault) ==
    IF fault.kind = "item" /\ fault.page = pageNo /\ fault.idx <= Len(page)
    THEN fault.idx - 1
    ELSE Len(page)

\* the fault ends the first loop: the outer except is reached, pagination is skipped
StopsInFirstPage(listing, fault) ==
    fault.kind = "item" /\ fault.page = 1 /\ fault.idx <= Len(FirstPage(listing))

\* the fault is met: the call or the resource it names is reached
FaultOccurs(listing, fault) ==
    \/ fault.kind = "list"
    \/ fault.kind = "next" /\ HasNextCursor(listing)
    \/ fault.kind = "item" /\ fault.page = 1 /\ fault.idx <= Len(FirstPage(listing))
    \/ fault.kind = "item" /\ fault.page = 2 /\ HasNextCursor(listing)
                           /\ fault.idx <= Len(NextPage(listing))

\* how many resources of the listing are processed before the fault
BeforeFault(fault) ==
    IF fault.kind = "list" THEN 0
    ELSE IF fault.kind = "next" THEN MaxResults
    ELSE (fault.page - 1) * MaxResults + fault.idx - 1

\* a folder's reconciliation that is undone when it meets a fault
fetch_cloudinary_folder_images_undone(meta, listing, fault, t) ==
    IF FaultOccurs(listing, fault) THEN meta
    ELSE LET first == FirstPage(listing)
             m1 == ProcessResources(meta, first, Len(first), t)
         IN  IF ~HasNextCursor(listing)
             THEN m1
             ELSE ProcessResources(m1, NextPage(listing), Len(NextPage(listing)), t)

fetch_cloudinary_folder_images(meta, listing, fault, t) ==
    IF fault.kind = "list" THEN meta
    ELSE LET first == FirstPage(listing)
             m1 == ProcessResources(meta, first, Processed(first, 1, fault), t)
         IN  IF StopsInFirstPage(listing, fault) \/ ~HasNextCursor(listing) \/ fault.kind = "next"
             THEN m1
             ELSE LET next == NextPage(listing)
                  IN  ProcessResources(m1, next, Processed(next, 2, fault), t)

RECURSIVE FetchAlternatives(_, _, _, _, _)
FetchAlternatives(meta, remote, faults, k, t) ==
    IF k = 0 THEN meta
    ELSE fetch_cloudinary_folder_images(
             FetchAlternatives(meta, remote, faults, k - 1, t),
             remote[ALTERNATIVE_FOLDERS[k]], faults[ALTERNATIVE_FOLDERS[k]], t)

\* the metadata after sync_cloudinary_images()
sync_cloudinary_images(meta, remote, faults, t) ==
    FetchAlternatives(
        fetch_cloudinary_folder_images(meta, remote[CLOUDINARY_FOLDER], faults[CLOUDINARY_FOLDER], t),
        remote, faults, Len(ALTERNATIVE_FOLDERS), t)

FaultInputs == [Folders -> FaultChoices]
NoFaults == [d \in Folders |-> NoFault]

----------------------------------------------------------------------------
(* The remote media host *)

\* secure_url of an asset: ".../<public_id>.<format>"
SecureUrl(public_id, format) == [id |-> public_id, fmt |-> format]

\* cloudinary.uploader.upload(file, public_id=base_filename, folder=CLOUDINARY_FOLDER):
\* the asset stored under whiteboard_captures/whiteboard_<t>, in the format the
\* host detects from the content
UploadedResource(t, format) ==
    LET public_id == [dir |-> CLOUDINARY_FOLDER, stem |-> "whiteboard_", n |-> t]
    IN  [public_id  |-> public_id,
         format     |-> format,
         created_at |-> t,
         secure_url |-> SecureUrl(public_id, format)]

ListingHas(listing, public_id) ==
    \E i \in 1..Len(listing) : listing[i].public_id = public_id

\* the primary folder's listing after an upload: an asset with the same
\* public id is overwritten, a new one is listed last
ListingPut(listing, resource) ==
    IF ListingHas(listing, resource.public_id)
    THEN [i \in 1..Len(listing) |->
             IF listing[i].public_id = resource.public_id THEN resource ELSE listing[i]]
    ELSE Append(listing, resource)

\* the listings after cloudinary.uploader.destroy(public_id) succeeded
CloudDestroy(remote, public_id) ==
    [d \in Folders |-> SelectSeq(remote[d], LAMBDA r : r.public_id # public_id)]

----------------------------------------------------------------------------
(* The Session Registry *)

Registered == DOMAIN user_deleted_images

\* the session ids a request may end up with: the cookie's, or a fresh uuid
SessionOf(cookie, uid) ==
    /\ uid \in SessionIds
    /\ IF cookie = NoCookie THEN uid \notin Registered ELSE uid = cookie

\* how the request's identity relates to the registry when it arrives
Ident(cookie) ==
    IF cookie = NoCookie THEN "new"
    ELSE IF cookie \in Registered THEN "known" ELSE "unknown"

\* user_deleted_images after init_user_session
DeletedAfterInit(cookie, uid) ==
    IF cookie = NoCookie
    THEN [s \in Registered \cup {uid} |-> IF s = uid THEN {} ELSE user_deleted_images[s]]
    ELSE user_deleted_images

\* user_session_start_times after init_user_session
StartsAfterInit(cookie, uid) ==
    IF cookie = NoCookie
    THEN [s \in DOMAIN user_session_start_times \cup {uid} |->
             IF s = uid THEN now ELSE user_session_start_times[s]]
    ELSE user_session_start_times

\* user_session_start_times.get(user_id, 0)
StartTimeGet(starts, uid) == IF uid \in DOMAIN starts THEN starts[uid] ELSE 0

\* user_deleted_images.get(user_id, set())
DeletedGet(deleted, uid) == IF uid \in DOMAIN deleted THEN deleted[uid] ELSE {}

----------------------------------------------------------------------------
(* Listing and export selection *)

\* a listing filter that drops the images captured in the session's first second
list_images_filter_strict(rec, deleted, start) ==
    rec.filename \notin deleted /\ rec.timestamp > start

\* the filter of list_images (main.py:337-338)
list_images_filter(rec, deleted, start) ==
    rec.filename \notin deleted /\ rec.timestamp >= start

\* sorted(image_list, key=lambda x: x['timestamp']): a stable sort
RECURSIVE InsertSorted(_, _)
InsertSorted(sorted, rec) ==
    IF sorted = <<>> THEN <<rec>>
    ELSE IF sorted[Len(sorted)].timestamp <= rec.timestamp
         THEN Append(sorted, rec)
         ELSE Append(InsertSorted(SubSeq(sorted, 1, Len(sorted) - 1), rec), sorted[Len(sorted)])

RECURSIVE SortedByTimestamp(_)
SortedByTimestamp(list) ==
    IF list = <<>> THEN <<>>
    ELSE InsertSorted(SortedByTimestamp(SubSeq(list, 1, Len(list) - 1)), list[Len(list)])

\* sorted_images of list_images
list_images_sorted(meta, deleted, start) ==
    SortedByTimestamp(SelectSeq(meta, LAMBDA r : list_images_filter(r, deleted, start)))

\* the filter of download_all (main.py:388-389)
download_all_filter(rec, deleted, start) ==
    rec.filename \notin deleted /\ rec.timestamp >= start

\* an export selection left in the store's order
download_all_unsorted(meta, deleted, start) ==
    SelectSeq(meta, LAMBDA r : r.filename \notin deleted /\ r.timestamp >= start)

\* sorted_images of download_all
download_all_sorted(meta, deleted, start) ==
    SortedByTimestamp(SelectSeq(meta, LAMBDA r : download_all_filter(r, deleted, start)))

\* the filter of download_pdf (main.py:427-428)
download_pdf_filter(rec, deleted, start) ==
    rec.filename \notin deleted /\ rec.timestamp >= start

\* sorted_images of download_pdf
download_pdf_sorted(meta, deleted, start) ==
    SortedByTimestamp(SelectSeq(meta, LAMBDA r : download_pdf_filter(r, deleted, start)))

\* session_image_count of status (main.py:507-510)
status_session_count(meta, deleted, start) ==
    Cardinality({i \in 1..Len(meta) :
                    meta[i].filename \notin deleted /\ meta[i].timestamp >= start})

\* the entries written by "if response.status_code == 200": the images whose
\* fetch succeeded, in the order of sorted_images
Fetched(sorted, failing) ==
    SelectSeq(sorted, LAMBDA r : r.filename \notin failing)

FilenamesOf(list) == [i \in 1..Len(list) |-> list[i].filename]

----------------------------------------------------------------------------
(* Responses and the history of the probe pair *)

NoFile == [ts |-> -1, ext |-> "-"]
NoUrl == [id |-> [dir |-> "-", stem |-> "-", n |-> -1], fmt |-> "-"]

\* failing and faults repeat the inputs of an export and of a forced
\* reconciliation: the fetches that did not answer 200, the faults met
Response(op, ident, sid, status, target, files, entries, url, count) ==
    [op |-> op, ident |-> ident, sid |-> sid, status |-> status, target |-> target,
     files |-> files, entries |-> entries, url |-> url, count |-> count, failing |-> {},
     faults |-> NoFaults]

(* hist is about session probe.sid and filename probe.f:                   *)
(*   deleted  the session's DELETE of the filename was answered 200 since  *)
(*            the session's last reset                                     *)
(* and, in the runs that keep the "roundtrip" history,                     *)
(*   listed   a GET /api/images of the session returned the filename       *)
(*   issued   the session's DELETE of the filename was answered 200        *)
(* and, in the runs that keep the "restore" history,                       *)
(*   delImg   deleted, and the store held the filename's record then       *)
(*   resetAt  the time of the session's last reset (NoReset: none yet)     *)
(*   old      deleted held when the session last reset                     *)
(*   oldImg   delImg held when the session last reset                      *)
(*   lists    the session's GET /api/images since its last reset, up to 2  *)
(* and, in the runs that keep the "global" history, about the filename and  *)
(* any session,                                                            *)
(*   fate     "removed": a DELETE found the filename's record and its      *)
(*            remote delete did not raise, and no upload or reconciliation *)
(*            has stored a record under the filename since; "kept": a      *)
(*            DELETE found the record and its remote delete raised, and no *)
(*            later DELETE or upload touched the filename; "none" otherwise*)
NoReset == 0 - 1

Hist0 == [listed |-> FALSE, issued |-> FALSE, deleted |-> FALSE, delImg |-> FALSE,
          resetAt |-> NoReset, old |-> FALSE, oldImg |-> FALSE, lists |-> 0,
          fate |-> "none"]

Keeps(what) == what \in probe.keep

HistListed(uid, files) ==
    IF uid = probe.sid
    THEN [hist EXCEPT !.listed = @ \/ (Keeps("roundtrip") /\ \E i \in 1..Len(files) : files[i] = probe.f),
                      !.lists = IF Keeps("restore") /\ @ < 2 THEN @ + 1 ELSE @]
    ELSE hist

HistDeleted(uid, filename, inStore) ==
    IF uid = probe.sid /\ filename = probe.f
    THEN [hist EXCEPT !.deleted = TRUE,
                      !.issued = @ \/ Keeps("roundtrip"),
                      !.delImg = @ \/ (Keeps("restore") /\ inStore)]
    ELSE hist

\* a DELETE of the filename by any session
HistFate(h, filename, inStore, destroyOk) ==
    IF Keeps("global") /\ filename = probe.f /\ inStore
    THEN [h EXCEPT !.fate = IF destroyOk THEN "removed" ELSE "kept"]
    ELSE h

\* an upload stored a record under the filename
HistUploaded(filename) ==
    IF Keeps("global") /\ filename = probe.f
    THEN [hist EXCEPT !.fate = "none"]
    ELSE hist

\* a reconciliation took the metadata from before to after
HistStored(h, before, after) ==
    IF Keeps("global") /\ probe.f \notin Names(before) /\ probe.f \in Names(after)
    THEN [h EXCEPT !.fate = "none"]
    ELSE h

HistReset(uid) ==
    IF uid = probe.sid
    THEN [hist EXCEPT !.resetAt = IF Keeps("restore") THEN now ELSE @,
                      !.old = Keeps("restore") /\ hist.deleted,
                      !.oldImg = Keeps("restore") /\ hist.delImg,
                      !.lists = 0,
                      !.deleted = FALSE, !.delImg = FALSE]
    ELSE hist

----------------------------------------------------------------------------
(* The HTTP handlers.  cookie is the user_id the request's session cookie   *)
(* carries (NoCookie: none); uid is session['user_id'] after               *)
(* init_user_session.                                                      *)

\* POST /api/upload, the file named *.<ext> with content of format <format>;
\* ok = FALSE: no file in the request (400) or the host's upload raises (500)
upload_image(cookie, uid, ext, format, ok) ==
    /\ SessionOf(cookie, uid)
    /\ user_deleted_images' = DeletedAfterInit(cookie, uid)
    /\ user_session_start_times' = StartsAfterInit(cookie, uid)
    /\ IF ok
       THEN LET resource == UploadedResource(now, format)
                rec == [filename      |-> [ts |-> now, ext |-> ext],
                        timestamp     |-> now,
                        cloudinary_id |-> resource.public_id,
                        url           |-> resource.secure_url]
            IN  /\ ListingHas(cloud[CLOUDINARY_FOLDER], resource.public_id)
                      \/ Len(cloud[CLOUDINARY_FOLDER]) < MaxListing
                /\ cloud' = [cloud EXCEPT ![CLOUDINARY_FOLDER] = ListingPut(@, resource)]
                /\ image_metadata' = MetaSet(image_metadata, rec)
                /\ metadata_file' = image_metadata'
                /\ resp' = Response("upload", Ident(cookie), uid, 200, rec.filename,
                                    <<>>, <<>>, rec.url, 0)
                /\ hist' = HistUploaded(rec.filename)
       ELSE /\ UNCHANGED <<cloud, image_metadata, metadata_file, hist>>
            /\ resp' = Response("upload", Ident(cookie), uid, 500, NoFile, <<>>, <<>>, NoUrl, 0)
    /\ UNCHANGED <<now, probe>>

\* a delete that is per session only: the shared record and the remote asset stay
delete_image_per_session(cookie, uid, filename, destroyOk) ==
    /\ SessionOf(cookie, uid)
    /\ user_session_start_times' = StartsAfterInit(cookie, uid)
    /\ UNCHANGED <<cloud, image_metadata, metadata_file>>
    /\ LET deleted == DeletedAfterInit(cookie, uid)
       IN  IF uid \in DOMAIN deleted
           THEN /\ user_deleted_images' = [deleted EXCEPT ![uid] = @ \cup {filename}]
                /\ resp' = Response("delete", Ident(cookie), uid, 200, filename,
                                    <<>>, <<>>, NoUrl, 0)
                /\ hist' = HistFate(HistDeleted(uid, filename, filename \in Names(image_metadata)),
                                    filename, filename \in Names(image_metadata), destroyOk)
           ELSE \* user_deleted_images[user_id] raises KeyError
                /\ user_deleted_images' = deleted
                /\ resp' = Response("delete", Ident(cookie), uid, 500, filename,
                                    <<>>, <<>>, NoUrl, 0)
                /\ hist' = HistFate(hist, filename, filename \in Names(image_metadata), destroyOk)
    /\ UNCHANGED <<now, probe>>

\* DELETE /api/delete/<filename>; destroyOk = FALSE: cloudinary.uploader.destroy raises
delete_image(cookie, uid, filename, destroyOk) ==
    /\ SessionOf(cookie, uid)
    /\ user_session_start_times' = StartsAfterInit(cookie, uid)
    /\ IF filename \in Names(image_metadata) /\ destroyOk
       THEN /\ cloud' = CloudDestroy(cloud, Lookup(image_metadata, filename).cloudinary_id)
            /\ image_metadata' = MetaDel(image_metadata, filename)
            /\ metadata_file' = image_metadata'
       ELSE UNCHANGED <<cloud, image_metadata, metadata_file>>
    /\ LET deleted == DeletedAfterInit(cookie, uid)
       IN  IF uid \in DOMAIN deleted
           THEN /\ user_deleted_images' = [deleted EXCEPT ![uid] = @ \cup {filename}]
                /\ resp' = Response("delete", Ident(cookie), uid, 200, filename,
                                    <<>>, <<>>, NoUrl, 0)
                /\ hist' = HistFate(HistDeleted(uid, filename, filename \in Names(image_metadata)),
                                    filename, filename \in Names(image_metadata), destroyOk)
           ELSE \* user_deleted_images[user_id] raises KeyError
                /\ user_deleted_images' = deleted
                /\ resp' = Response("delete", Ident(cookie), uid, 500, filename,
                                    <<>>, <<>>, NoUrl, 0)
                /\ hist' = HistFate(hist, filename, filename \in Names(image_metadata), destroyOk)
    /\ UNCHANGED <<now, probe>>

\* GET /api/sync-cloudinary
api_sync_cloudinary(cookie, uid, faults) ==
    /\ SessionOf(cookie, uid)
    /\ user_deleted_images' = DeletedAfterInit(cookie, uid)
    /\ user_session_start_times' = StartsAfterInit(cookie, uid)
    /\ image_metadata' = sync_cloudinary_images(image_metadata, cloud, faults, now)
    /\ metadata_file' = image_metadata'
    /\ resp' = [Response("sync", Ident(cookie), uid, 200, NoFile, <<>>, <<>>, NoUrl,
                         Len(image_metadata'))
                   EXCEPT !.faults = faults]
    /\ hist' = HistStored(hist, image_metadata, image_metadata')
    /\ UNCHANGED <<now, cloud, probe>>

\* GET /api/images
list_images(cookie, uid, faults) ==
    /\ SessionOf(cookie, uid)
    /\ user_deleted_images' = DeletedAfterInit(cookie, uid)
    /\ user_session_start_times' = StartsAfterInit(cookie, uid)
    /\ image_metadata' = sync_cloudinary_images(image_metadata, cloud, faults, now)
    /\ metadata_file' = image_metadata'
    /\ LET sorted == list_images_sorted(image_metadata',
                                        DeletedGet(user_deleted_images', uid),
                                        StartTimeGet(user_session_start_times', uid))
       IN  /\ resp' = Response("list", Ident(cookie), uid, 200, NoFile,
                               FilenamesOf(sorted), <<>>, NoUrl, Len(sorted))
           /\ hist' = HistStored(HistListed(uid, FilenamesOf(sorted)),
                                  image_metadata, image_metadata')
    /\ UNCHANGED <<now, cloud, probe>>

\* a single-image fetch that serves the images the session deleted
get_image_unblocked(cookie, uid, filename, faults, local) ==
    /\ SessionOf(cookie, uid)
    /\ user_deleted_images' = DeletedAfterInit(cookie, uid)
    /\ user_session_start_times' = StartsAfterInit(cookie, uid)
    /\ IF uid \notin DOMAIN user_deleted_images'
       THEN \* user_deleted_images[user_id] raises KeyError
            /\ UNCHANGED <<image_metadata, metadata_file>>
            /\ resp' = Response("get", Ident(cookie), uid, 500, filename, <<>>, <<>>, NoUrl, 0)
       ELSE IF filename \in Names(image_metadata)
       THEN /\ UNCHANGED <<image_metadata, metadata_file>>
            /\ resp' = Response("get", Ident(cookie), uid, 302, filename, <<>>, <<>>,
                                Lookup(image_metadata, filename).url, 0)
       ELSE /\ image_metadata' = sync_cloudinary_images(image_metadata, cloud, faults, now)
            /\ metadata_file' = image_metadata'
            /\ IF filename \in Names(image_metadata')
               THEN resp' = Response("get", Ident(cookie), uid, 302, filename, <<>>, <<>>,
                                     Lookup(image_metadata', filename).url, 0)
               ELSE \* send_from_directory(IMAGE_DIR, filename)
                    resp' = Response("get", Ident(cookie), uid, IF local THEN 200 ELSE 404,
                                     filename, <<>>, <<>>, NoUrl, 0)
    /\ hist' = HistStored(hist, image_metadata, image_metadata')
    /\ UNCHANGED <<now, cloud, probe>>

\* GET /api/images/<filename>; local: IMAGE_DIR holds a file of that name
get_image(cookie, uid, filename, faults, local) ==
    /\ SessionOf(cookie, uid)
    /\ user_deleted_images' = DeletedAfterInit(cookie, uid)
    /\ user_session_start_times' = StartsAfterInit(cookie, uid)
    /\ IF uid \notin DOMAIN user_deleted_images'
       THEN \* user_deleted_images[user_id] raises KeyError
            /\ UNCHANGED <<image_metadata, metadata_file>>
            /\ resp' = Response("get", Ident(cookie), uid, 500, filename, <<>>, <<>>, NoUrl, 0)
       ELSE IF filename \in user_deleted_images'[uid]
       THEN /\ UNCHANGED <<image_metadata, metadata_file>>
            /\ resp' = Response("get", Ident(cookie), uid, 404, filename, <<>>, <<>>, NoUrl, 0)
       ELSE IF filename \in Names(image_metadata)
       THEN /\ UNCHANGED <<image_metadata, metadata_file>>
            /\ resp' = Response("get", Ident(cookie), uid, 302, filename, <<>>, <<>>,
                                Lookup(image_metadata, filename).url, 0)
       ELSE /\ image_metadata' = sync_cloudinary_images(image_metadata, cloud, faults, now)
            /\ metadata_file' = image_metadata'
            /\ IF filename \in Names(image_metadata')
               THEN resp' = Response("get", Ident(cookie), uid, 302, filename, <<>>, <<>>,
                                     Lookup(image_metadata', filename).url, 0)
               ELSE \* send_from_directory(IMAGE_DIR, filename)
                    resp' = Response("get", Ident(cookie), uid, IF local THEN 200 ELSE 404,
                                     filename, <<>>, <<>>, NoUrl, 0)
    /\ hist' = HistStored(hist, image_metadata, image_metadata')
    /\ UNCHANGED <<now, cloud, probe>>

\* GET /api/download
download_all(cookie, uid, faults, failing) ==
    /\ SessionOf(cookie, uid)
    /\ user_deleted_images' = DeletedAfterInit(cookie, uid)
    /\ user_session_start_times' = StartsAfterInit(cookie, uid)
    /\ image_metadata' = sync_cloudinary_images(image_metadata, cloud, faults, now)
    /\ metadata_file' = image_metadata'
    /\ LET sorted == download_all_sorted(image_metadata',
                                         DeletedGet(user_deleted_images', uid),
                                         StartTimeGet(user_session_start_times', uid))
           written == Fetched(sorted, failing)
       IN  resp' = [Response("zip", Ident(cookie), uid, 200, NoFile,
                             FilenamesOf(sorted), FilenamesOf(written), NoUrl, Len(written))
                       EXCEPT !.failing = failing]
    /\ hist' = HistStored(hist, image_metadata, image_metadata')
    /\ UNCHANGED <<now, cloud, probe>>

\* GET /api/download-pdf
download_pdf(cookie, uid, faults, failing) ==
    /\ SessionOf(cookie, uid)
    /\ user_deleted_images' = DeletedAfterInit(cookie, uid)
    /\ user_session_start_times' = StartsAfterInit(cookie, uid)
    /\ image_metadata' = sync_cloudinary_images(image_metadata, cloud, faults, now)
    /\ metadata_file' = image_metadata'
    /\ LET sorted == download_pdf_sorted(image_metadata',
                                         DeletedGet(user_deleted_images', uid),
                                         StartTimeGet(user_session_start_times', uid))
           pages == Fetched(sorted, failing)
       IN  resp' = [Response("pdf", Ident(cookie), uid, 200, NoFile,
                             FilenamesOf(sorted), FilenamesOf(pages), NoUrl, Len(pages))
                       EXCEPT !.failing = failing]
    /\ hist' = HistStored(hist, image_metadata, image_metadata')
    /\ UNCHANGED <<now, cloud, probe>>

\* a reset that keeps the session's start time
reset_session_stale(cookie, uid) ==
    /\ SessionOf(cookie, uid)
    /\ user_session_start_times' = StartsAfterInit(cookie, uid)
    /\ LET deleted == DeletedAfterInit(cookie, uid)
       IN  user_deleted_images' =
               [s \in DOMAIN deleted \cup {uid} |-> IF s = uid THEN {} ELSE deleted[s]]
    /\ resp' = Response("reset", Ident(cookie), uid, 200, NoFile, <<>>, <<>>, NoUrl,
                        StartTimeGet(user_session_start_times', uid))
    /\ hist' = HistReset(uid)
    /\ UNCHANGED <<now, image_metadata, metadata_file, cloud, probe>>

\* a reset that keeps the session's deletions
reset_session_keep(cookie, uid) ==
    /\ SessionOf(cookie, uid)
    /\ LET starts == StartsAfterInit(cookie, uid)
       IN  user_session_start_times' =
               [s \in DOMAIN starts \cup {uid} |-> IF s = uid THEN now ELSE starts[s]]
    /\ user_deleted_images' = DeletedAfterInit(cookie, uid)
    /\ resp' = Response("reset", Ident(cookie), uid, 200, NoFile, <<>>, <<>>, NoUrl, now)
    /\ hist' = HistReset(uid)
    /\ UNCHANGED <<now, image_metadata, metadata_file, cloud, probe>>

\* GET /api/reset-session
reset_session(cookie, uid) ==
    /\ SessionOf(cookie, uid)
    /\ LET starts == StartsAfterInit(cookie, uid)
           deleted == DeletedAfterInit(cookie, uid)
       IN  /\ user_session_start_times' =
                  [s \in DOMAIN starts \cup {uid} |-> IF s = uid THEN now ELSE starts[s]]
           /\ user_deleted_images' =
                  [s \in DOMAIN deleted \cup {uid} |-> IF s = uid THEN {} ELSE deleted[s]]
    /\ resp' = Response("reset", Ident(cookie), uid, 200, NoFile, <<>>, <<>>, NoUrl,
                        user_session_start_times'[uid])
    /\ hist' = HistReset(uid)
    /\ UNCHANGED <<now, image_metadata, metadata_file, cloud, probe>>

\* GET /api/status
status(cookie, uid, faults) ==
    /\ SessionOf(cookie, uid)
    /\ user_deleted_images' = DeletedAfterInit(cookie, uid)
    /\ user_session_start_times' = StartsAfterInit(cookie, uid)
    /\ image_metadata' = sync_cloudinary_images(image_metadata, cloud, faults, now)
    /\ metadata_file' = image_metadata'
    /\ resp' = Response("status", Ident(cookie), uid, 200, NoFile, <<>>, <<>>, NoUrl,
                        status_session_count(image_metadata',
                                             DeletedGet(user_deleted_images', uid),
                                             StartTimeGet(user_session_start_times', uid)))
    /\ hist' = HistStored(hist, image_metadata, image_metadata')
    /\ UNCHANGED <<now, cloud, probe>>

\* a second of wall-clock time passes
Tick ==
    /\ now < MaxTime
    /\ now' = now + 1
    /\ UNCHANGED <<image_metadata, metadata_file, user_deleted_images,
                   user_session_start_times, cloud, resp, probe, hist>>

----------------------------------------------------------------------------
(* Initial states *)

\* whiteboard_captures/whiteboard_0, a png
AssetPrimary == UploadedResource(0, "png")

\* whiteboard_images/whiteboard_0, a png: another remote id, the same derived
\* timestamp and format
AssetLegacy ==
    LET public_id == [dir |-> ALTERNATIVE_FOLDERS[1], stem |-> "whiteboard_", n |-> 0]
    IN  [public_id |-> public_id, format |-> "png", created_at |-> 0,
         secure_url |-> SecureUrl(public_id, "png")]

\* the remote id of AssetPrimary, listed as a jpg
AssetDuplicate == UploadedResource(0, "jpg")

\* whiteboard_images/img_0, whose created_at does not parse
AssetUndated ==
    LET public_id == [dir |-> ALTERNATIVE_FOLDERS[1], stem |-> "img_", n |-> 0]
    IN  [public_id |-> public_id, format |-> "png", created_at |-> NoDate,
         secure_url |-> SecureUrl(public_id, "png")]

AssetPool == {AssetPrimary, AssetLegacy, AssetDuplicate, AssetUndated}

\* the listings of at most k resources of a pool, of pairwise distinct remote ids
Listings(pool, k) ==
    UNION {{l \in [1..n -> pool] :
               \A i, j \in 1..n : i # j => l[i].public_id # l[j].public_id} : n \in 0..k}

NoResponse == Response("none", "new", NoCookie, 0, NoFile, <<>>, <<>>, NoUrl, 0)

\* a fresh process: load_metadata() finds no file, no session is registered
InitLocal ==
    /\ now = 0
    /\ image_metadata = <<>>
    /\ metadata_file = <<>>
    /\ user_deleted_images = [s \in {} |-> {}]
    /\ user_session_start_times = [s \in {} |-> 0]
    /\ resp = NoResponse
    /\ hist = Hist0

\* the filename the DELETE and GET-image requests of a run name, the session
\* whose history is kept (the session ids are opaque uuids: any one stands
\* for all) and the history kept
Probes(keep) == [sid : {1}, f : Filenames, keep : {keep}]

\* whiteboard_images/whiteboard_0, a jpg
AssetLegacyJpg ==
    LET public_id == [dir |-> ALTERNATIVE_FOLDERS[1], stem |-> "whiteboard_", n |-> 0]
    IN  [public_id |-> public_id, format |-> "jpg", created_at |-> 0,
         secure_url |-> SecureUrl(public_id, "jpg")]

\* the remote host of the session runs: nothing, or one legacy asset
SessionClouds ==
    {[d \in Folders |-> <<>>],
     [d \in Folders |-> IF d = ALTERNATIVE_FOLDERS[1] THEN <<AssetLegacyJpg>> ELSE <<>>]}

\* the cookies of the sessions this process registered, or none
KnownCookies == {NoCookie} \cup Registered

\* the faults of the session runs: at most one folder's listing call raises
ListFaults ==
    {fl \in FaultInputs :
        /\ \A d \in Folders : fl[d].kind \in {"none", "list"}
        /\ Cardinality({d \in Folders : fl[d] # NoFault}) <= 1}

\* the images whose fetch, requests.get(img['url']), does not answer 200
FailingChoices == {{}, {probe.f}}

\* the requests that change the store or the registry, from known sessions
Mutators ==
    \/ Tick
    \/ \E c \in KnownCookies, u \in SessionIds, ok \in BOOLEAN :
           upload_image(c, u, "png", "png", ok)
    \/ \E c \in KnownCookies, u \in SessionIds, ok \in BOOLEAN :
           delete_image(c, u, probe.f, ok)
    \/ \E c \in KnownCookies, u \in SessionIds :
           reset_session(c, u)
    \/ \E c \in KnownCookies, u \in SessionIds, fl \in ListFaults :
           api_sync_cloudinary(c, u, fl)

(* Spec: the listing, the exports and the status *)

Init ==
    /\ InitLocal
    /\ cloud \in SessionClouds
    /\ probe \in Probes({})

Next ==
    \/ Mutators
    \/ \E c \in KnownCookies, u \in SessionIds, fl \in ListFaults :
           list_images(c, u, fl)
    \/ \E c \in KnownCookies, u \in SessionIds, fl \in ListFaults, x \in FailingChoices :
           download_all(c, u, fl, x)
    \/ \E c \in KnownCookies, u \in SessionIds, fl \in ListFaults, x \in FailingChoices :
           download_pdf(c, u, fl, x)
    \/ \E c \in KnownCookies, u \in SessionIds, fl \in ListFaults :
           status(c, u, fl)

Spec == Init /\ [][Next]_vars

(* ResetSpec: reset-session and the listing *)

InitReset ==
    /\ InitLocal
    /\ cloud \in SessionClouds
    /\ probe \in Probes({"restore"})

NextReset ==
    \/ Mutators
    \/ \E c \in KnownCookies, u \in SessionIds, fl \in ListFaults :
           list_images(c, u, fl)

ResetSpec == InitReset /\ [][NextReset]_vars

(* GetSpec: the listing and the single-image fetch *)

InitGet ==
    /\ InitLocal
    /\ cloud \in SessionClouds
    /\ probe \in Probes({"roundtrip"})

NextGet ==
    \/ Mutators
    \/ \E c \in KnownCookies, u \in SessionIds, fl \in ListFaults :
           list_images(c, u, fl)
    \/ \E c \in KnownCookies, u \in SessionIds, fl \in ListFaults, l \in BOOLEAN :
           get_image(c, u, probe.f, fl, l)

GetSpec == InitGet /\ [][NextGet]_vars

(* GlobalSpec: deletes by any session and the listing *)

InitGlobal ==
    /\ InitLocal
    /\ cloud \in SessionClouds
    /\ probe \in Probes({"global"})

NextGlobal ==
    \/ Mutators
    \/ \E c \in KnownCookies, u \in SessionIds, fl \in ListFaults :
           list_images(c, u, fl)

GlobalSpec == InitGlobal /\ [][NextGlobal]_vars

(* AuthSpec: requests whose cookie names a session this process never
   registered.  The cookie is signed with app.secret_key, so it is one the
   application issued: by a worker process that registered the id in its own
   copy of the registry. *)

Cookies == {NoCookie} \cup SessionIds

InitAuth ==
    /\ InitLocal
    /\ cloud \in SessionClouds
    /\ probe \in Probes({})

NextAuth ==
    \/ Tick
    \/ \E c \in Cookies, u \in SessionIds :
           upload_image(c, u, "png", "png", TRUE)
    \/ \E c \in Cookies, u \in SessionIds, ok \in BOOLEAN :
           delete_image(c, u, probe.f, ok)
    \/ \E c \in Cookies, u \in SessionIds :
           list_images(c, u, NoFaults)
    \/ \E c \in Cookies, u \in SessionIds, l \in BOOLEAN :
           get_image(c, u, probe.f, NoFaults, l)
    \/ \E c \in Cookies, u \in SessionIds :
           download_all(c, u, NoFaults, {})
    \/ \E c \in Cookies, u \in SessionIds :
           download_pdf(c, u, NoFaults, {})
    \/ \E c \in Cookies, u \in SessionIds :
           reset_session(c, u)

AuthSpec == InitAuth /\ [][NextAuth]_vars

(* SyncSpec: the forced reconciliation against any remote listing, with
   any fault, between uploads, deletes and the passing of time.  What the
   remote host lists under a folder's prefix is its answer, not the
   program's: any listing of the pool is an initial state. *)

SyncProbe == [sid |-> 1, f |-> [ts |-> 0, ext |-> "png"], keep |-> {}]

\* no fault, or one folder's reconciliation meets one
SingleFaults(remote) ==
    {fl \in FaultInputs :
        /\ Cardinality({d \in Folders : fl[d] # NoFault}) <= 1
        /\ \A d \in Folders : fl[d] # NoFault => FaultOccurs(remote[d], fl[d])}

InitSync ==
    /\ InitLocal
    /\ cloud \in [Folders -> Listings(AssetPool, MaxListing)]
    /\ cloud[CLOUDINARY_FOLDER] \in Listings({AssetPrimary}, MaxListing)
    /\ probe = SyncProbe

NextSync ==
    \/ Tick
    \/ \E c \in KnownCookies, fl \in SingleFaults(cloud) :
           api_sync_cloudinary(c, probe.sid, fl)
    \/ \E c \in KnownCookies, format \in Exts :
           upload_image(c, probe.sid, "png", format, TRUE)
    \/ \E c \in KnownCookies, ok \in BOOLEAN :
           delete_image(c, probe.sid, probe.f, ok)

SyncSpec == InitSync /\ [][NextSync]_vars

----------------------------------------------------------------------------
(* Claims about the listing and the exports (Spec) *)

Range(seq) == {seq[i] : i \in 1..Len(seq)}

NoDuplicates(seq) == \A i, j \in 1..Len(seq) : i # j => seq[i] # seq[j]

\* the ImageRecords visible to a registered session, by the rule of the data model
VisibleRecords(sid) ==
    {i \in 1..Len(image_metadata) :
        /\ image_metadata[i].timestamp >= user_session_start_times[sid]
        /\ image_metadata[i].filename \notin user_deleted_images[sid]}

VisibleNames(sid) == {image_metadata[i].filename : i \in VisibleRecords(sid)}

\* C1: the filenames GET /api/images returns, the images selected for the zip
\* and the PDF export and the session_image_count of /api/status are exactly
\* the records of the store with timestamp >= session_start whose filename
\* the session has not deleted.
C1_VisibleSet ==
    /\ resp.op \in {"list", "zip", "pdf"} =>
           /\ Range(resp.files) = VisibleNames(resp.sid)
           /\ NoDuplicates(resp.files)
    /\ resp.op = "status" => resp.count = Cardinality(VisibleNames(resp.sid))

\* a zip export that selects an image while the store holds a record in the
\* session's time window that the session has deleted
C1_Witness ==
    /\ resp.op = "zip"
    /\ resp.files # <<>>
    /\ \E i \in 1..Len(image_metadata) :
           /\ image_metadata[i].filename \in user_deleted_images[resp.sid]
           /\ image_metadata[i].timestamp >= user_session_start_times[resp.sid]

TimestampOf(filename) == Lookup(image_metadata, filename).timestamp

\* what GET /api/images answers the session in this state
ListingOf(sid) ==
    FilenamesOf(list_images_sorted(image_metadata, user_deleted_images[sid],
                                   user_session_start_times[sid]))

\* C6: the entries of the zip export and the pages of the PDF export are in
\* non-decreasing timestamp order and are the listing of the same session and
\* state, in its order, without the images whose fetch did not answer 200.
C6_ExportOrder ==
    resp.op \in {"zip", "pdf"} =>
        /\ \A i, j \in 1..Len(resp.entries) :
               i < j => TimestampOf(resp.entries[i]) <= TimestampOf(resp.entries[j])
        /\ resp.entries = SelectSeq(ListingOf(resp.sid), LAMBDA f : f \notin resp.failing)

\* a PDF export with two pages of equal timestamps and a selected image skipped
C6_Witness ==
    /\ resp.op = "pdf"
    /\ resp.failing \cap Range(resp.files) # {}
    /\ \E i, j \in 1..Len(resp.entries) :
           i < j /\ TimestampOf(resp.entries[i]) = TimestampOf(resp.entries[j])

----------------------------------------------------------------------------
(* Claims about reset-session (ResetSpec) *)

\* C5: after the session's reset at time t its start time is t, its deletion
\* set is empty and it is still the registered session; its listings hold no
\* record with timestamp < t and hold every record with timestamp = t that
\* it has not deleted since.
C5_ResetSemantics ==
    LET s == probe.sid
        t == hist.resetAt
    IN  t # NoReset =>
            /\ s \in Registered
            /\ s \in DOMAIN user_session_start_times
            /\ user_session_start_times[s] = t
            /\ (resp.op = "reset" /\ resp.sid = s) =>
                   /\ user_deleted_images[s] = {}
                   /\ resp.count = t
            /\ (resp.op = "list" /\ resp.sid = s) =>
                   \A i \in 1..Len(image_metadata) :
                       LET r == image_metadata[i]
                       IN  /\ r.timestamp < t => r.filename \notin Range(resp.files)
                           /\ (r.timestamp = t /\ ~(r.filename = probe.f /\ hist.deleted))
                                  => r.filename \in Range(resp.files)

\* a listing after a reset at t > 0 that holds a record of timestamp t while
\* the store holds an older record that the session never deleted
C5_Witness ==
    /\ hist.resetAt > 0
    /\ resp.op = "list" /\ resp.sid = probe.sid
    /\ ~hist.deleted /\ ~hist.old
    /\ \E i \in 1..Len(image_metadata) :
           /\ image_metadata[i].timestamp = hist.resetAt
           /\ image_metadata[i].filename \in Range(resp.files)
    /\ \E i \in 1..Len(image_metadata) :
           /\ image_metadata[i].timestamp < hist.resetAt
           /\ image_metadata[i].filename \notin Range(resp.files)

\* the session's first listing after a reset before which it deleted the
\* probe filename, and since which it has not deleted it again
FirstListingAfterReset ==
    /\ resp.op = "list" /\ resp.sid = probe.sid
    /\ hist.resetAt # NoReset
    /\ hist.lists = 1
    /\ ~hist.deleted

\* C10 as stated: a filename whose image the session deleted before its reset
\* at t, with timestamp >= t, is in the session's next listing.
C10_DeletedReappears ==
    (FirstListingAfterReset /\ hist.oldImg /\ probe.f.ts >= hist.resetAt)
        => probe.f \in Range(resp.files)

\* C10, amended: a filename the session deleted before its reset at t is in
\* the session's next listing when the store then holds a record for it with
\* timestamp >= t.
C10_RecordReappears ==
    (FirstListingAfterReset /\ hist.old /\ probe.f \in Names(image_metadata))
        => (TimestampOf(probe.f) >= hist.resetAt => probe.f \in Range(resp.files))

\* the deleted image is listed again: its remote delete had failed, or its
\* record was created anew
C10_Witness ==
    /\ FirstListingAfterReset
    /\ hist.oldImg
    /\ probe.f \in Range(resp.files)

----------------------------------------------------------------------------
(* Claims about the single-image fetch (GetSpec) *)

GetByProbe == resp.op = "get" /\ resp.sid = probe.sid /\ resp.target = probe.f

\* C4 as stated: a filename the session was listed is served by a redirect
\* at any time before the session deletes it and answered 404 at any time
\* after the session deleted it.
C4_RoundTripAlways ==
    (GetByProbe /\ hist.listed) =>
        IF hist.issued THEN resp.status = 404 ELSE resp.status = 302

\* C4, amended: a filename the session was listed is answered 404 from the
\* session's DELETE until the session's next reset-session, and otherwise is
\* served by a redirect to its record's URL whenever the store holds its
\* record.
C4_RoundTrip ==
    (GetByProbe /\ hist.listed) =>
        /\ hist.deleted => resp.status = 404
        /\ (~hist.deleted /\ probe.f \in Names(image_metadata)) =>
               /\ resp.status = 302
               /\ resp.url = Lookup(image_metadata, probe.f).url

\* the 404 for a listed filename whose remote delete failed: the store still
\* holds the record the session deleted
C4_Witness ==
    /\ GetByProbe
    /\ hist.listed /\ hist.deleted
    /\ probe.f \in Names(image_metadata)
    /\ resp.status = 404

----------------------------------------------------------------------------
(* Claims about unregistered sessions (AuthSpec) *)

SessionScoped == {"delete", "list", "get", "zip", "pdf", "reset"}

\* C7 as stated: a session-scoped request whose session id is not in the
\* registry is answered 401 and changes neither the store nor the registry.
C7_UnknownSessionRefused ==
    [][(resp'.op \in SessionScoped /\ resp'.ident = "unknown" /\ now' = now) =>
           /\ resp'.status = 401
           /\ UNCHANGED <<image_metadata, metadata_file,
                          user_deleted_images, user_session_start_times>>]_vars

----------------------------------------------------------------------------
(* Claims about the reconciliation (SyncSpec) *)

\* the step is a forced reconciliation that met no fault (the passing of
\* time leaves the response of the last request in place)
CleanSyncStep == resp'.op = "sync" /\ resp'.faults = NoFaults /\ now' = now

\* the last request was a forced reconciliation that met no fault
AfterCleanSync == resp.op = "sync" /\ resp.faults = NoFaults

\* the records of the metadata that reference the remote id
Referencing(meta, public_id) ==
    {i \in 1..Len(meta) : meta[i].cloudinary_id = public_id}

\* C2 as stated: a reconciliation that follows a reconciliation, with no
\* request in between and so no change of the remote listing, adds, removes
\* and changes no record.
C2_Idempotent ==
    [][(AfterCleanSync /\ CleanSyncStep) => image_metadata' = image_metadata]_vars

\* C8 as stated: after a reconciliation that met no fault, every asset of
\* every folder's listing is referenced by some record of the store.
C8_EveryAssetReferenced ==
    AfterCleanSync =>
        \A d \in Folders : \A i \in 1..Len(cloud[d]) :
            ExistingEntry(image_metadata, cloud[d][i].public_id)

\* the records referencing the remote id
RecordsOf(meta, public_id) == {meta[i] : i \in Referencing(meta, public_id)}

\* the positions of a legacy listing that repeat the remote id of position i
\* of the primary listing
ListedAgain(remote, i) ==
    {<<d, j>> \in Range(ALTERNATIVE_FOLDERS) \X (1..MaxListing) :
        /\ j <= Len(remote[d])
        /\ remote[d][j].public_id = remote[CLOUDINARY_FOLDER][i].public_id}

\* C3 as stated: a reconciliation never leaves a remote id referenced by two
\* records that was not so before, and a remote id listed in the primary
\* folder and again in a legacy folder is afterwards referenced by exactly
\* one record: the one the store already held for it, else the one built
\* from the primary listing.
C3_OneRecordPerAsset ==
    [][CleanSyncStep =>
          /\ \A k \in 1..Len(image_metadata') :
                 LET public_id == image_metadata'[k].cloudinary_id
                 IN  Cardinality(Referencing(image_metadata', public_id)) > 1 =>
                         Cardinality(Referencing(image_metadata, public_id)) > 1
          /\ \A i \in 1..Len(cloud[CLOUDINARY_FOLDER]) :
                 LET resource == cloud[CLOUDINARY_FOLDER][i]
                 IN  ListedAgain(cloud, i) # {} =>
                         RecordsOf(image_metadata', resource.public_id) =
                             IF ExistingEntry(image_metadata, resource.public_id)
                             THEN RecordsOf(image_metadata, resource.public_id)
                             ELSE {NewRecord(resource, now)}]_vars

\* the listings with the folder that meets a fault cut to the first k(fault)
\* resources
CutAtFault(remote, faults, k(_)) ==
    [d \in Folders |->
        IF faults[d] # NoFault /\ FaultOccurs(remote[d], faults[d])
        THEN SubSeq(remote[d], 1, k(faults[d]))
        ELSE remote[d]]

NothingBefore(fault) == 0

\* the step is a forced reconciliation in which a folder met a fault
FaultySyncStep ==
    /\ resp'.op = "sync" /\ now' = now
    /\ \E d \in Folders : resp'.faults[d] # NoFault /\ FaultOccurs(cloud[d], resp'.faults[d])

\* C9 as stated: a folder whose reconciliation meets a fault contributes
\* nothing, the other folders are reconciled as without the fault, and the
\* metadata is saved.
C9_FaultyFolderNoOp ==
    [][FaultySyncStep =>
          /\ image_metadata' =
                 sync_cloudinary_images(image_metadata,
                                        CutAtFault(cloud, resp'.faults, NothingBefore),
                                        NoFaults, now)
          /\ metadata_file' = image_metadata']_vars

\* C9, amended: a folder whose reconciliation meets a fault contributes the
\* resources processed before the fault (none when the first listing call
\* raises), the other folders are reconciled as without the fault, and the
\* metadata is saved.
C9_FaultKeepsProcessed ==
    [][FaultySyncStep =>
          /\ image_metadata' =
                 sync_cloudinary_images(image_metadata,
                                        CutAtFault(cloud, resp'.faults, BeforeFault),
                                        NoFaults, now)
          /\ metadata_file' = image_metadata']_vars

\* the primary folder's next_cursor call raised: the store references the
\* resource of its first page, not that of its second, and the resources of
\* the legacy folder
C9_Witness ==
    /\ resp.op = "sync"
    /\ resp.faults[CLOUDINARY_FOLDER].kind = "next"
    /\ HasNextCursor(cloud[CLOUDINARY_FOLDER])
    /\ ExistingEntry(image_metadata, cloud[CLOUDINARY_FOLDER][1].public_id)
    /\ ~ExistingEntry(image_metadata, cloud[CLOUDINARY_FOLDER][MaxResults + 1].public_id)
    /\ \E d \in Range(ALTERNATIVE_FOLDERS) :
           /\ cloud[d] # <<>>
           /\ \A i \in 1..Len(cloud[d]) : ExistingEntry(image_metadata, cloud[d][i].public_id)
    /\ metadata_file = image_metadata

----------------------------------------------------------------------------
(* Claims about the global effect of a delete (GlobalSpec) *)

\* C11: once a session's DELETE found the filename's record and the remote
\* delete did not raise, the store holds no record under the filename and no
\* session is listed it, until an upload or a reconciliation stores a record
\* under the filename again; when the remote delete raised, the record stays
\* and every session that did not delete the filename itself, and started no
\* later than its timestamp, is still listed it.
C11_GlobalDelete ==
    /\ hist.fate = "removed" =>
           /\ probe.f \notin Names(image_metadata)
           /\ resp.op = "list" => probe.f \notin Range(resp.files)
    /\ hist.fate = "kept" =>
           /\ probe.f \in Names(image_metadata)
           /\ resp.op = "list" =>
                  (probe.f \in Range(resp.files) <=>
                       /\ probe.f \notin user_deleted_images[resp.sid]
                       /\ TimestampOf(probe.f) >= user_session_start_times[resp.sid])

\* a session that did not delete the filename, and started no later than the
\* filename's timestamp, is not listed it after another session's delete
\* removed the record
C11_Witness ==
    /\ resp.op = "list"
    /\ hist.fate = "removed"
    /\ probe.f \notin user_deleted_images[resp.sid]
    /\ user_session_start_times[resp.sid] <= probe.f.ts
    /\ \E s \in Registered \ {resp.sid} : probe.f \in user_deleted_images[s]
    /\ resp.count > 0

====
